---- MODULE Spec2Model ----
(***************************************************************************)
(* The order state machine of the pizza assistant (src/pizza.py,           *)
(* class PizzeriaBot): the order record, the seven dispatcher operations,  *)
(* the dispatcher execute_function and the chat entry point.               *)
(*                                                                         *)
(* A Python str is a sequence of one-character strings, so that lower(),   *)
(* strip(), the `in` substring test and dictionary lookups are computed.   *)
(* Prices are in cents.                                                    *)
(***************************************************************************)
EXTENDS Integers, Sequences, FiniteSets, TLC

VARIABLES
    program,        \* which of the two programs runs: "pizza" or "books"
    current_order,  \* PizzeriaBot: self.current_order
    call,           \* the entry point last called, with its arguments
    before,         \* self.current_order when that call started
    response,       \* what that call returned
    conversation_history,   \* BookRecommenderChatbot: self.conversation_history
    book_call,      \* the method last called, with its arguments
    book_before,    \* self.conversation_history when that call started
    book_response   \* what that call returned

pizza_vars == <<current_order, call, before, response>>

book_vars == <<conversation_history, book_call, book_before, book_response>>

vars == <<program, pizza_vars, book_vars>>

(***************************************************************************)
(* Bounds of the model.                                                    *)
(***************************************************************************)
\* the longest ingredient list the model lets an operation build
MaxIngredients == 3

\* the longest conversation history the model lets a chat turn build
MaxHistory == 2

(***************************************************************************)
(* Python values and str methods.                                          *)
(***************************************************************************)
\* Python's None: no str, since every element of a str is one character
None == <<"None">>

\* a key the parameter mapping does not hold
Absent == <<"<absent>">>

UpperCase == <<"A","B","C","D","E","F","G","H","I","J","K","L","M","N","O","P","Q","R","S","T","U","V","W","X","Y","Z">>

LowerCase == <<"a","b","c","d","e","f","g","h","i","j","k","l","m","n","o","p","q","r","s","t","u","v","w","x","y","z">>

Whitespace == {" ", "\t", "\n"}

\* the lower-case letter of each upper-case letter
to_lower ==
    [c \in {UpperCase[i] : i \in 1..Len(UpperCase)} |->
        LowerCase[CHOOSE i \in 1..Len(UpperCase) : UpperCase[i] = c]]

lower_char(c) == IF c \in DOMAIN to_lower THEN to_lower[c] ELSE c

\* str.lower()
lower(s) == IF s = <<>> THEN <<>> ELSE [i \in 1..Len(s) |-> lower_char(s[i])]

\* str.strip()
strip(s) ==
    LET keep == {i \in 1..Len(s) : s[i] \notin Whitespace}
    IN  IF keep = {} THEN <<>>
        ELSE SubSeq(s, CHOOSE i \in keep : \A j \in keep : i <= j,
                       CHOOSE i \in keep : \A j \in keep : j <= i)

\* needle in hay, for two str
contains(hay, needle) ==
    \E i \in 0..(Len(hay) - Len(needle)) : SubSeq(hay, i + 1, i + Len(needle)) = needle

\* not x, for x a str or None
falsy(x) == x = None \/ x = <<>>

\* dict.get(key, default) on the value the mapping holds for the key
get(value, default) == IF value = Absent THEN default ELSE value

(***************************************************************************)
(* PizzeriaBot.__init__: the catalogs.                                     *)
(***************************************************************************)
\* self.available_ingredients: the categories in dictionary order
available_ingredients ==
  <<
     \* meats
     << <<"p","e","p","p","e","r","o","n","i">>,
        <<"s","a","u","s","a","g","e">>,
        <<"h","a","m">>,
        <<"b","a","c","o","n">>,
        <<"c","h","i","c","k","e","n">>,
        <<"b","e","e","f">>,
        <<"s","a","l","a","m","i">> >>,
     \* vegetables
     << <<"m","u","s","h","r","o","o","m","s">>,
        <<"o","n","i","o","n","s">>,
        <<"b","e","l","l"," ","p","e","p","p","e","r","s">>,
        <<"t","o","m","a","t","o","e","s">>,
        <<"o","l","i","v","e","s">>,
        <<"s","p","i","n","a","c","h">>,
        <<"a","r","u","g","u","l","a">>,
        <<"b","a","s","i","l">>,
        <<"g","a","r","l","i","c">> >>,
     \* cheeses
     << <<"m","o","z","z","a","r","e","l","l","a">>,
        <<"c","h","e","d","d","a","r">>,
        <<"p","a","r","m","e","s","a","n">>,
        <<"f","e","t","a">>,
        <<"g","o","a","t"," ","c","h","e","e","s","e">> >>,
     \* sauces
     << <<"t","o","m","a","t","o"," ","s","a","u","c","e">>,
        <<"w","h","i","t","e"," ","s","a","u","c","e">>,
        <<"p","e","s","t","o">>,
        <<"b","b","q"," ","s","a","u","c","e">>,
        <<"r","a","n","c","h">> >>
  >>

\* typo_map of normalize_ingredient: <<key, value>> pairs
typo_map ==
  <<
     << <<"p","e","p","e","r","o","n","i">>,
        <<"p","e","p","p","e","r","o","n","i">> >>,
     << <<"p","e","p","p","e","r","o","n","i">>,
        <<"p","e","p","p","e","r","o","n","i">> >>,
     << <<"m","o","z","a","r","e","l","a">>,
        <<"m","o","z","z","a","r","e","l","l","a">> >>,
     << <<"m","o","z","z","a","r","e","l","a">>,
        <<"m","o","z","z","a","r","e","l","l","a">> >>,
     << <<"m","o","z","z","a","r","e","l","l","a">>,
        <<"m","o","z","z","a","r","e","l","l","a">> >>,
     << <<"m","u","s","h","r","o","o","m">>,
        <<"m","u","s","h","r","o","o","m","s">> >>,
     << <<"m","u","s","h","r","o","m","s">>,
        <<"m","u","s","h","r","o","o","m","s">> >>,
     << <<"m","a","s","h","r","o","o","m","s">>,
        <<"m","u","s","h","r","o","o","m","s">> >>,
     << <<"o","n","i","o","n">>,
        <<"o","n","i","o","n","s">> >>,
     << <<"t","o","m","a","t","o","e">>,
        <<"t","o","m","a","t","o","e","s">> >>,
     << <<"o","l","i","v","e">>,
        <<"o","l","i","v","e","s">> >>,
     << <<"b","e","l","l","p","e","p","p","e","r">>,
        <<"b","e","l","l"," ","p","e","p","p","e","r","s">> >>,
     << <<"b","e","l","l"," ","p","e","p","p","e","r">>,
        <<"b","e","l","l"," ","p","e","p","p","e","r","s">> >>,
     << <<"g","r","e","e","n"," ","p","e","p","p","e","r">>,
        <<"b","e","l","l"," ","p","e","p","p","e","r","s">> >>,
     << <<"c","h","e","e","s","e">>,
        <<"m","o","z","z","a","r","e","l","l","a">> >>
  >>

\* self.pizza_sizes, price in cents
pizza_sizes ==
  <<
     [name |-> <<"s","m","a","l","l">>, price |-> 1299, description |-> "10 inch"],
     [name |-> <<"m","e","d","i","u","m">>, price |-> 1599, description |-> "12 inch"],
     [name |-> <<"l","a","r","g","e">>, price |-> 1899, description |-> "14 inch"],
     [name |-> <<"e","x","t","r","a"," ","l","a","r","g","e">>, price |-> 2199, description |-> "16 inch"]
  >>

\* self.pizza_sizes[size], for size in self.pizza_sizes
size_info(size) == pizza_sizes[CHOOSE i \in 1..Len(pizza_sizes) : pizza_sizes[i].name = size]

\* size in self.pizza_sizes
is_size(size) == \E i \in 1..Len(pizza_sizes) : pizza_sizes[i].name = size

\* the order record a new PizzeriaBot holds
new_order == [size |-> None, ingredients |-> <<>>, total_price |-> 0, confirmed |-> FALSE]

\* a return value: which message, and the values formatted into it
Response(kind, size, ingredient, toppings, price, total) ==
    [kind |-> kind, size |-> size, ingredient |-> ingredient,
     toppings |-> toppings, price |-> price, total |-> total]

Message(kind) == Response(kind, <<>>, <<>>, <<>>, 0, 0)

(***************************************************************************)
(* The operations, each as the order record and the return value it        *)
(* leaves: [order |-> ..., response |-> ...].                              *)
(***************************************************************************)
\* PizzeriaBot.normalize_ingredient
normalize_ingredient(ingredient) ==
    LET key == strip(lower(ingredient))
    IN  IF \E i \in 1..Len(typo_map) : typo_map[i][1] = key
        THEN typo_map[CHOOSE i \in 1..Len(typo_map) : typo_map[i][1] = key][2]
        ELSE key

\* all_ingredients, as add_ingredient and create_pizza_with_size build it
all_ingredients ==
    UNION {{lower(available_ingredients[c][i]) : i \in 1..Len(available_ingredients[c])} :
              c \in 1..Len(available_ingredients)}

\* the first orig_ingredient of a category whose lower() is the name, if any:
\* the inner loops of add_ingredient and create_pizza_with_size
first_in_category(category, name) ==
    LET hits == {i \in 1..Len(category) : lower(category[i]) = name}
    IN  IF hits = {} THEN <<>>
        ELSE <<category[CHOOSE i \in hits : \A j \in hits : i <= j]>>

\* what create_pizza_with_size appends from categories c..: one element for
\* each category holding the name (its break leaves only the inner loop)
RECURSIVE found_per_category(_, _)
found_per_category(c, name) ==
    IF c > Len(available_ingredients) THEN <<>>
    ELSE first_in_category(available_ingredients[c], name)
            \o found_per_category(c + 1, name)

\* PizzeriaBot.create_pizza_with_size
create_pizza_with_size(order, size_arg, main_ingredient) ==
    LET size == strip(lower(size_arg))
    IN  IF is_size(size)
        THEN LET normalized_ingredient == normalize_ingredient(main_ingredient)
                 added == IF ~falsy(main_ingredient)
                             /\ normalized_ingredient \in all_ingredients
                          THEN found_per_category(1, normalized_ingredient)
                          ELSE <<>>
             IN  [order |-> [order EXCEPT !.size = size,
                                          !.ingredients = @ \o added],
                  response |-> Response("created", size, <<>>, added,
                                        size_info(size).price, 0)]
        ELSE [order |-> order, response |-> Message("unknown_size")]

\* add_ingredient appending the caller's string instead of the catalog's
add_ingredient_raw(order, ingredient) ==
    LET normalized_ingredient == normalize_ingredient(ingredient)
    IN  IF normalized_ingredient \in all_ingredients
        THEN IF \A i \in 1..Len(order.ingredients) :
                    lower(order.ingredients[i]) # normalized_ingredient
             THEN [order |-> [order EXCEPT !.ingredients = Append(@, ingredient)],
                   response |-> Response("added", <<>>, ingredient, <<>>, 0, 0)]
             ELSE [order |-> order,
                   response |-> Response("already_present", <<>>,
                                         normalized_ingredient, <<>>, 0, 0)]
        ELSE [order |-> order,
              response |-> Response("not_available", <<>>, ingredient, <<>>, 0, 0)]

\* add_ingredient refusing a topping while no size is chosen
add_ingredient_needs_size(order, ingredient) ==
    LET normalized_ingredient == normalize_ingredient(ingredient)
        found == found_per_category(1, normalized_ingredient)
    IN  IF normalized_ingredient \in all_ingredients /\ ~falsy(order.size)
        THEN IF \A i \in 1..Len(order.ingredients) :
                    lower(order.ingredients[i]) # normalized_ingredient
             THEN [order |-> [order EXCEPT !.ingredients = Append(@, found[1])],
                   response |-> Response("added", <<>>, found[1], <<>>, 0, 0)]
             ELSE [order |-> order,
                   response |-> Response("already_present", <<>>,
                                         normalized_ingredient, <<>>, 0, 0)]
        ELSE [order |-> order,
              response |-> Response("not_available", <<>>, ingredient, <<>>, 0, 0)]

\* PizzeriaBot.add_ingredient
add_ingredient(order, ingredient) ==
    LET normalized_ingredient == normalize_ingredient(ingredient)
        found == found_per_category(1, normalized_ingredient)
    IN  IF normalized_ingredient \in all_ingredients
        THEN IF \A i \in 1..Len(order.ingredients) :
                    lower(order.ingredients[i]) # normalized_ingredient
             THEN \* the first match returns; without one the method returns None
                  IF found # <<>>
                  THEN [order |-> [order EXCEPT !.ingredients = Append(@, found[1])],
                        response |-> Response("added", <<>>, found[1], <<>>, 0, 0)]
                  ELSE [order |-> order, response |-> Message("none")]
             ELSE [order |-> order,
                   response |-> Response("already_present", <<>>,
                                         normalized_ingredient, <<>>, 0, 0)]
        ELSE [order |-> order,
              response |-> Response("not_available", <<>>, ingredient, <<>>, 0, 0)]

\* set_pizza_size forgetting the size on an unknown one
set_pizza_size_resets(order, size_arg) ==
    LET size == strip(lower(size_arg))
    IN  IF is_size(size)
        THEN [order |-> [order EXCEPT !.size = size],
              response |-> Response("size_set", size, <<>>, <<>>,
                                    size_info(size).price, 0)]
        ELSE [order |-> [order EXCEPT !.size = None],
              response |-> Message("unknown_size")]

\* set_pizza_size starting the toppings over when the size changes
set_pizza_size_clears(order, size_arg) ==
    LET size == strip(lower(size_arg))
    IN  IF is_size(size)
        THEN [order |-> [order EXCEPT !.size = size,
                                      !.ingredients = IF order.size = size THEN @ ELSE <<>>],
              response |-> Response("size_set", size, <<>>, <<>>,
                                    size_info(size).price, 0)]
        ELSE [order |-> order, response |-> Message("unknown_size")]

\* PizzeriaBot.set_pizza_size
set_pizza_size(order, size_arg) ==
    LET size == strip(lower(size_arg))
    IN  IF is_size(size)
        THEN [order |-> [order EXCEPT !.size = size],
              response |-> Response("size_set", size, <<>>, <<>>,
                                    size_info(size).price, 0)]
        ELSE [order |-> order, response |-> Message("unknown_size")]

\* list.pop(i)
pop(list, i) == SubSeq(list, 1, i - 1) \o SubSeq(list, i + 1, Len(list))

\* remove_ingredient popping the last match instead of the first
remove_ingredient_last(order, ingredient_arg) ==
    LET ingredient == strip(lower(ingredient_arg))
        hits == {i \in 1..Len(order.ingredients) :
                    lower(order.ingredients[i]) = ingredient}
    IN  IF hits # {}
        THEN LET i == CHOOSE i \in hits : \A j \in hits : j <= i
             IN  [order |-> [order EXCEPT !.ingredients = pop(@, i)],
                  response |-> Response("removed", <<>>, order.ingredients[i],
                                        <<>>, 0, 0)]
        ELSE [order |-> order,
              response |-> Response("not_found", <<>>, ingredient, <<>>, 0, 0)]

\* remove_ingredient looking the name up in the typo table, as add_ingredient does
remove_ingredient_normalized(order, ingredient_arg) ==
    LET ingredient == normalize_ingredient(ingredient_arg)
        hits == {i \in 1..Len(order.ingredients) :
                    lower(order.ingredients[i]) = ingredient}
    IN  IF hits # {}
        THEN LET i == CHOOSE i \in hits : \A j \in hits : i <= j
             IN  [order |-> [order EXCEPT !.ingredients = pop(@, i)],
                  response |-> Response("removed", <<>>, order.ingredients[i],
                                        <<>>, 0, 0)]
        ELSE [order |-> order,
              response |-> Response("not_found", <<>>, ingredient, <<>>, 0, 0)]

\* PizzeriaBot.remove_ingredient
remove_ingredient(order, ingredient_arg) ==
    LET ingredient == strip(lower(ingredient_arg))
        hits == {i \in 1..Len(order.ingredients) :
                    lower(order.ingredients[i]) = ingredient}
    IN  IF hits # {}
        THEN LET i == CHOOSE i \in hits : \A j \in hits : i <= j
             IN  [order |-> [order EXCEPT !.ingredients = pop(@, i)],
                  response |-> Response("removed", <<>>, order.ingredients[i],
                                        <<>>, 0, 0)]
        ELSE [order |-> order,
              response |-> Response("not_found", <<>>, ingredient, <<>>, 0, 0)]

\* show_current_order storing the total it displays in the order record
show_current_order_stores_total(order) ==
    IF falsy(order.size)
    THEN [order |-> order, response |-> Message("no_size_yet")]
    ELSE [order |-> [order EXCEPT !.total_price = size_info(order.size).price],
          response |-> Response("order_summary", order.size, <<>>,
                                order.ingredients,
                                size_info(order.size).price,
                                size_info(order.size).price)]

\* PizzeriaBot.show_current_order
show_current_order(order) ==
    IF falsy(order.size)
    THEN [order |-> order, response |-> Message("no_size_yet")]
    ELSE [order |-> order,
          response |-> Response("order_summary", order.size, <<>>,
                                order.ingredients,
                                size_info(order.size).price,
                                size_info(order.size).price)]

\* confirm_order without the test for toppings
confirm_order_without_toppings(order) ==
    IF falsy(order.size)
    THEN [order |-> order, response |-> Message("select_size_first")]
    ELSE [order |-> [order EXCEPT !.confirmed = TRUE],
          response |-> Response("order_confirmed", order.size, <<>>,
                                order.ingredients, 0,
                                size_info(order.size).price)]

\* confirm_order charging each topping
confirm_order_priced_toppings(order) ==
    IF falsy(order.size)
    THEN [order |-> order, response |-> Message("select_size_first")]
    ELSE IF order.ingredients = <<>>
    THEN [order |-> order, response |-> Message("add_toppings_first")]
    ELSE [order |-> [order EXCEPT !.confirmed = TRUE],
          response |-> Response("order_confirmed", order.size, <<>>,
                                order.ingredients, 0,
                                size_info(order.size).price
                                    + 150 * Len(order.ingredients))]

\* PizzeriaBot.confirm_order
confirm_order(order) ==
    IF falsy(order.size)
    THEN [order |-> order, response |-> Message("select_size_first")]
    ELSE IF order.ingredients = <<>>
    THEN [order |-> order, response |-> Message("add_toppings_first")]
    ELSE [order |-> [order EXCEPT !.confirmed = TRUE],
          response |-> Response("order_confirmed", order.size, <<>>,
                                order.ingredients, 0,
                                size_info(order.size).price)]

\* PizzeriaBot.show_available_ingredients
show_available_ingredients(order) ==
    [order |-> order, response |-> Message("available_ingredients")]

\* PizzeriaBot.execute_function; parameters holds Absent for a missing key
execute_function(order, function_name, parameters) ==
    IF function_name = "create_pizza_with_size"
    THEN create_pizza_with_size(order, get(parameters.size, <<>>),
                                get(parameters.main_ingredient, None))
    ELSE IF function_name = "add_ingredient"
    THEN add_ingredient(order, get(parameters.ingredient, <<>>))
    ELSE IF function_name = "set_pizza_size"
    THEN set_pizza_size(order, get(parameters.size, <<>>))
    ELSE IF function_name = "remove_ingredient"
    THEN remove_ingredient(order, get(parameters.ingredient, <<>>))
    ELSE IF function_name = "show_current_order"
    THEN show_current_order(order)
    ELSE IF function_name = "confirm_order"
    THEN confirm_order(order)
    ELSE IF function_name = "show_available_ingredients"
    THEN show_available_ingredients(order)
    ELSE [order |-> order, response |-> Message("could_not_understand")]

(***************************************************************************)
(* PizzeriaBot.chat.  The collaborator's reply is an input: the call       *)
(* raises, or returns the parts of the first candidate (none when there is *)
(* no candidate), each a function call, a text or neither.                 *)
(***************************************************************************)
\* the phrases of the completion shortcut
completion_phrases ==
    { <<"t","h","a","t"," ","a","l","l">>, <<"t","h","a","t","s"," ","a","l","l">>, <<"t","h","a","t","'","s"," ","a","l","l">>,
      <<"d","o","n","e">>, <<"f","i","n","i","s","h">>, <<"c","o","m","p","l","e","t","e">> }

\* the completion test on the message as typed, without lower()
is_completion_as_typed(user_message) ==
    \E phrase \in completion_phrases : contains(strip(user_message), phrase)

\* any(phrase in user_lower for phrase in [...])
is_completion(user_message) ==
    \E phrase \in completion_phrases : contains(strip(lower(user_message)), phrase)

\* the loop over response.candidates[0].content.parts, from part i on
RECURSIVE for_part(_, _, _)
for_part(order, parts, i) ==
    IF i > Len(parts)
    THEN [order |-> order, response |-> Message("happy_to_help")]
    ELSE IF parts[i].kind = "function_call"
    THEN execute_function(order, parts[i].name, parts[i].parameters)
    ELSE IF parts[i].kind = "text"
    THEN [order |-> order, response |-> Message("text")]
    ELSE for_part(order, parts, i + 1)

\* PizzeriaBot.chat
chat(order, user_message, reply) ==
    IF is_completion(user_message)
    THEN IF ~falsy(order.size) /\ order.ingredients # <<>>
         THEN confirm_order(order)
         ELSE show_current_order(order)
    ELSE IF reply.kind = "raise"
    THEN [order |-> order, response |-> Message("error")]
    ELSE for_part(order, reply.parts, 1)

(***************************************************************************)
(* The arguments the model calls the entry points with.                    *)
(***************************************************************************)
\* " Large ", "small", "XL"
SizeArgs == { <<" ","L","a","r","g","e"," ">>, <<"s","m","a","l","l">>, <<"X","L">> }

\* "Pepperoni ", "peperoni", "olives", "pineapple"
IngredientArgs == { <<"P","e","p","p","e","r","o","n","i"," ">>, <<"p","e","p","e","r","o","n","i">>, <<"o","l","i","v","e","s">>, <<"p","i","n","e","a","p","p","l","e">> }

\* the seven names execute_function knows
OrderFunctions ==
    {"create_pizza_with_size", "add_ingredient", "set_pizza_size",
     "remove_ingredient", "show_current_order", "confirm_order",
     "show_available_ingredients"}

\* the function names callers pass: the seven and one that is none of them
FunctionNames == OrderFunctions \cup {"cancel_order"}

NoParameters == [size |-> Absent, main_ingredient |-> Absent, ingredient |-> Absent]

\* parameter mappings: empty, a size, an ingredient, a size and a main ingredient
ParameterMappings ==
    {NoParameters}
    \cup {[NoParameters EXCEPT !.size = s] : s \in SizeArgs}
    \cup {[NoParameters EXCEPT !.ingredient = x] : x \in IngredientArgs}
    \cup {[NoParameters EXCEPT !.size = <<" ","L","a","r","g","e"," ">>, !.main_ingredient = x] :
             x \in IngredientArgs}

\* "I'm DONE", "That's all", "a large pizza", "   "
UserMessages == { <<"I","'","m"," ","D","O","N","E">>, <<"T","h","a","t","'","s"," ","a","l","l">>, <<"a"," ","l","a","r","g","e"," ","p","i","z","z","a">>, <<" "," "," ">> }

NotCalled == [kind |-> "not_called", parts |-> <<>>]

Raised == [kind |-> "raise", parts |-> <<>>]

TextPart == [kind |-> "text", name |-> "", parameters |-> NoParameters]

BlankPart == [kind |-> "blank", name |-> "", parameters |-> NoParameters]

\* the function calls the collaborator's reply may hold: every name, with
\* the arguments size "small", ingredient "olives", main_ingredient "peperoni"
FunctionCalls ==
    {[kind |-> "function_call", name |-> n,
      parameters |-> [size |-> <<"s","m","a","l","l">>, ingredient |-> <<"o","l","i","v","e","s">>,
                      main_ingredient |-> <<"p","e","p","e","r","o","n","i">>]] :
        n \in FunctionNames}

\* what the collaborator answers when it is called
Replies ==
    {Raised}
    \cup {[kind |-> "response", parts |-> parts] :
             parts \in {<<>>, <<TextPart>>, <<BlankPart>>}
                       \cup {<<fc>> : fc \in FunctionCalls}
                       \cup {<<BlankPart, fc>> : fc \in FunctionCalls}
                       \cup {<<TextPart, fc>> :
                                fc \in {f \in FunctionCalls : f.name = "add_ingredient"}}}

(***************************************************************************)
(* The book assistant (src/books.py, class BookRecommenderChatbot).  It is *)
(* a program of its own: it shares nothing with the pizza assistant.       *)
(* Similarity scores are in hundredths.                                    *)
(***************************************************************************)
\* the floor a similarity score has to exceed: 0.01
SimilarityFloor == 1

\* num_recommendations when find_similar_books is called without it
DefaultRecommendations == 5

\* the rows search_by_title returns at most
TitleCap == 10

\* the rows get_recommendations_by_author returns at most
AuthorCap == 8

\* the books the fallback and the prompt list at most
ListedBooks == 3

\* self.books_df after load_books_data: "Dune" by "Frank Herbert", "Emma"
\* and "Persuasion" by "Jane Austen"
books_df ==
    << [title |-> <<"D","u","n","e">>, author |-> <<"F","r","a","n","k"," ","H","e","r","b","e","r","t">>, description |-> "d1"],
       [title |-> <<"E","m","m","a">>, author |-> <<"J","a","n","e"," ","A","u","s","t","e","n">>, description |-> "d2"],
       [title |-> <<"P","e","r","s","u","a","s","i","o","n">>, author |-> <<"J","a","n","e"," ","A","u","s","t","e","n">>, description |-> "d3"] >>

\* a regular expression of literals around one group (.+): the alternatives
\* an optional character leaves before and after the group, longer first
Pattern(prefix, suffix) == [prefix |-> prefix, suffix |-> suffix]

\* author_patterns of detect_intent
author_patterns ==
    << \* books? by (.+)
       Pattern(<< <<"b","o","o","k","s"," ","b","y"," ">>, <<"b","o","o","k"," ","b","y"," ">> >>, << <<>> >>),
       \* (.+)'s books?
       Pattern(<< <<>> >>, << <<"'","s"," ","b","o","o","k","s">>, <<"'","s"," ","b","o","o","k">> >>),
       \* author (.+)
       Pattern(<< <<"a","u","t","h","o","r"," ">> >>, << <<>> >>),
       \* written by (.+)
       Pattern(<< <<"w","r","i","t","t","e","n"," ","b","y"," ">> >>, << <<>> >>),
       \* from (.+) author
       Pattern(<< <<"f","r","o","m"," ">> >>, << <<" ","a","u","t","h","o","r">> >>) >>

\* title_patterns of detect_intent
title_patterns ==
    << \* book called (.+)
       Pattern(<< <<"b","o","o","k"," ","c","a","l","l","e","d"," ">> >>, << <<>> >>),
       \* title (.+)
       Pattern(<< <<"t","i","t","l","e"," ">> >>, << <<>> >>),
       \* book titled (.+)
       Pattern(<< <<"b","o","o","k"," ","t","i","t","l","e","d"," ">> >>, << <<>> >>),
       \* looking for (.+)
       Pattern(<< <<"l","o","o","k","i","n","g"," ","f","o","r"," ">> >>, << <<>> >>),
       \* find (.+)
       Pattern(<< <<"f","i","n","d"," ">> >>, << <<>> >>) >>

\* the literal stands in the text from position i on
literal_at(text, i, literal) ==
    /\ i + Len(literal) - 1 <= Len(text)
    /\ SubSeq(text, i, i + Len(literal) - 1) = literal

\* where a group (.+) that starts at first may end: it holds no line break
\* and a suffix follows it
group_ends(pattern, text, first) ==
    {last \in first..Len(text) :
        /\ \A j \in first..last : text[j] # "\n"
        /\ \E s \in 1..Len(pattern.suffix) : literal_at(text, last + 1, pattern.suffix[s])}

\* the ways the pattern matches from position i: <<alternative, first>>
matches_from(pattern, text, i) ==
    {m \in {<<a, i + Len(pattern.prefix[a])>> : a \in 1..Len(pattern.prefix)} :
        /\ literal_at(text, i, pattern.prefix[m[1]])
        /\ group_ends(pattern, text, m[2]) # {}}

\* the least and the greatest of a set of positions
least(positions) == CHOOSE i \in positions : \A j \in positions : i <= j

greatest(positions) == CHOOSE i \in positions : \A j \in positions : j <= i

\* the match object: no match, or the group (.+) captured
no_match == [matched |-> FALSE, group |-> <<>>]

\* the match m = <<alternative, first>> with its group as long as it can be
match_of(pattern, text, m) ==
    [matched |-> TRUE,
     group |-> SubSeq(text, m[2], greatest(group_ends(pattern, text, m[2])))]

\* the match among ms that takes the optional character when it can
preferred(ms) == CHOOSE m \in ms : \A n \in ms : m[1] <= n[1]

\* the match of the pattern that starts leftmost among starts
match_at(pattern, text, starts) ==
    IF starts = {} THEN no_match
    ELSE match_of(pattern, text, preferred(matches_from(pattern, text, least(starts))))

\* re.search(pattern, text): the leftmost match, the optional character
\* taken when it can be, the group as long as it can be
re_search(pattern, text) ==
    match_at(pattern, text, {i \in 1..Len(text) : matches_from(pattern, text, i) # {}})

\* the patterns of the list that match the text, by their place in it
matching(patterns, text) ==
    {p \in 1..Len(patterns) : re_search(patterns[p], text).matched}

\* the match of the earliest of the patterns ps, if there is one
earliest_match(patterns, text, ps) ==
    IF ps = {} THEN no_match ELSE re_search(patterns[least(ps)], text)

\* for pattern in patterns: the first pattern that matches ends the loop
first_match(patterns, text) ==
    earliest_match(patterns, text, matching(patterns, text))

\* the intent detect_intent returns for the matches of the two loops
intent_of(user_input, author, title) ==
    IF author.matched
    THEN [intent |-> "author_search", query |-> strip(author.group)]
    ELSE IF title.matched
    THEN [intent |-> "title_search", query |-> strip(title.group)]
    ELSE [intent |-> "similarity_search", query |-> user_input]

\* the intent when the title loop runs before the author loop
intent_of_title_first(user_input, author, title) ==
    IF title.matched
    THEN [intent |-> "title_search", query |-> strip(title.group)]
    ELSE IF author.matched
    THEN [intent |-> "author_search", query |-> strip(author.group)]
    ELSE [intent |-> "similarity_search", query |-> user_input]

\* detect_intent with the title patterns tried before the author patterns
detect_intent_title_first(user_input) ==
    intent_of_title_first(user_input,
                          first_match(author_patterns, lower(user_input)),
                          first_match(title_patterns, lower(user_input)))

\* BookRecommenderChatbot.detect_intent
detect_intent(user_input) ==
    intent_of(user_input,
              first_match(author_patterns, lower(user_input)),
              first_match(title_patterns, lower(user_input)))

\* The texts the model gives the book assistant:
\* "  ", "Hi", "bye", "Books by Jane Austen", "book called Dune",
\* "about dragons", "find books by Orwell"
BookInputs ==
    { <<" "," ">>, <<"H","i">>, <<"b","y","e">>, <<"B","o","o","k","s"," ","b","y"," ","J","a","n","e"," ","A","u","s","t","e","n">>, <<"b","o","o","k"," ","c","a","l","l","e","d"," ","D","u","n","e">>,
      <<"a","b","o","u","t"," ","d","r","a","g","o","n","s">>, <<"f","i","n","d"," ","b","o","o","k","s"," ","b","y"," ","O","r","w","e","l","l">> }

\* and for detect_intent also "Tolkien's books by topic",
\* "looking for title Emma", "Austen's book"
IntentInputs ==
    BookInputs \cup { <<"T","o","l","k","i","e","n","'","s"," ","b","o","o","k","s"," ","b","y"," ","t","o","p","i","c">>, <<"l","o","o","k","i","n","g"," ","f","o","r"," ","t","i","t","l","e"," ","E","m","m","a">>,
                      <<"A","u","s","t","e","n","'","s"," ","b","o","o","k">> }

\* detect_intent on each of these texts, searched once
detected_intent == [user_input \in IntentInputs |-> detect_intent(user_input)]

\* a return value of the book assistant: which message, the books listed in
\* it (recommendations), the wording random.choice picked, and for
\* detect_intent the intent and the query
BookResponse(kind, books, choice) ==
    [kind |-> kind, books |-> books, choice |-> choice, intent |-> "", query |-> <<>>]

\* the return value of detect_intent
IntentResponse(intent_data) ==
    [BookResponse("intent", <<>>, 0) EXCEPT !.intent = intent_data.intent,
                                            !.query = intent_data.query]

\* one recommendation: the row of books_df, how it was found, its score
Recommendation(book, match_type, similarity_score) ==
    [book |-> book, match_type |-> match_type, similarity_score |-> similarity_score]

\* the first n elements of a list: list[:n]
head(list, n) == SubSeq(list, 1, IF n < Len(list) THEN n ELSE Len(list))

\* list[::-1]
reversed(list) == [i \in 1..Len(list) |-> list[Len(list) + 1 - i]]

\* the rows of books_df whose field holds the query, whatever the case
\* (str.contains on a query without regular-expression characters)
RECURSIVE rows_containing(_, _, _)
rows_containing(field, query, row) ==
    IF row > Len(books_df) THEN <<>>
    ELSE (IF contains(lower(books_df[row][field]), lower(query)) THEN <<row>> ELSE <<>>)
            \o rows_containing(field, query, row + 1)

\* the recommendations of the rows, in their order
as_matches(rows, match_type) ==
    [i \in 1..Len(rows) |-> Recommendation(rows[i], match_type, 0)]

\* BookRecommenderChatbot.search_by_title
search_by_title(title_query) ==
    as_matches(head(rows_containing("title", title_query, 1), TitleCap), "title_match")

\* BookRecommenderChatbot.get_recommendations_by_author
get_recommendations_by_author(author_query) ==
    as_matches(head(rows_containing("author", author_query, 1), AuthorCap), "author_match")

\* the results np.argsort may give: the sort is not stable, so rows of
\* equal similarity come in any order
argsorts(similarities) ==
    {p \in Permutations(1..Len(similarities)) :
        \A i, j \in 1..Len(similarities) :
            i < j => similarities[p[i]] <= similarities[p[j]]}

\* the loop of find_similar_books over similar_indices, from position i on
RECURSIVE above_floor(_, _, _)
above_floor(similar_indices, similarities, i) ==
    IF i > Len(similar_indices) THEN <<>>
    ELSE (IF similarities[similar_indices[i]] > SimilarityFloor
          THEN <<Recommendation(similar_indices[i], "similarity",
                                similarities[similar_indices[i]])>>
          ELSE <<>>)
            \o above_floor(similar_indices, similarities, i + 1)

\* find_similar_books taking its rows from the low end of the sort
find_similar_books_ascending(similarities, argsort, num_recommendations) ==
    LET similar_indices == head(argsort, num_recommendations)
    IN  above_floor(similar_indices, similarities, 1)

\* BookRecommenderChatbot.find_similar_books, on the similarities of the
\* query to the rows and the result of np.argsort on them
find_similar_books(similarities, argsort, num_recommendations) ==
    LET similar_indices == head(reversed(argsort), num_recommendations)
    IN  above_floor(similar_indices, similarities, 1)

\* BookRecommenderChatbot.generate_no_results_response
generate_no_results_response(choice) == BookResponse("no_results", <<>>, choice)

\* BookRecommenderChatbot.fallback_response
fallback_response(recommendations, choice) ==
    IF recommendations = <<>>
    THEN generate_no_results_response(choice)
    ELSE BookResponse("fallback_listing", head(recommendations, ListedBooks), 0)

\* generate_human_response falling back without the recommendations
generate_human_response_empty_fallback(recommendations, reply, choice) ==
    IF recommendations = <<>>
    THEN generate_no_results_response(choice)
    ELSE IF reply.kind = "raise"
    THEN fallback_response(<<>>, choice)
    ELSE BookResponse("generated_text", head(recommendations, ListedBooks), 0)

\* BookRecommenderChatbot.generate_human_response; reply is what
\* generate_content does: it raises, or returns a text
generate_human_response(recommendations, reply, choice) ==
    IF recommendations = <<>>
    THEN generate_no_results_response(choice)
    ELSE IF reply.kind = "raise"
    THEN fallback_response(recommendations, choice)
    ELSE BookResponse("generated_text", head(recommendations, ListedBooks), 0)

\* the greetings and the farewells chat answers itself
greetings == { <<"h","e","l","l","o">>, <<"h","i">>, <<"h","e","y">> }

farewells == { <<"b","y","e">>, <<"g","o","o","d","b","y","e">>, <<"e","x","i","t">>, <<"q","u","i","t">> }

\* chat answers without looking anything up
answers_itself(user_input) ==
    \/ strip(user_input) = <<>>
    \/ lower(user_input) \in greetings
    \/ lower(user_input) \in farewells

\* chat's dispatch on the intent
recommendations_of(intent_data, similarities, argsort) ==
    IF intent_data.intent = "author_search"
    THEN get_recommendations_by_author(intent_data.query)
    ELSE IF intent_data.intent = "title_search"
    THEN search_by_title(intent_data.query)
    ELSE find_similar_books(similarities, argsort, DefaultRecommendations)

\* the recommendations chat finds for the input
recommendations_for(user_input, similarities, argsort) ==
    recommendations_of(detected_intent[user_input], similarities, argsort)

\* an entry of conversation_history (without its timestamp)
HistoryEntry(type, user, bot, recommendations) ==
    [type |-> type, user |-> user, bot |-> bot, recommendations |-> recommendations]

\* the end of chat: the response is stored in the history and returned
stored(asked, recommendations_count, answer) ==
    [history |-> Append(asked, HistoryEntry("bot_response", <<>>, answer.kind,
                                            recommendations_count)),
     response |-> answer]

\* chat from the recommendations on
answered(asked, recommendations, reply, choice) ==
    stored(asked, Len(recommendations),
           generate_human_response(recommendations, reply, choice))

\* BookRecommenderChatbot.chat, as the history and the return value it leaves
book_chat(history, user_input, similarities, argsort, reply, choice) ==
    IF strip(user_input) = <<>>
    THEN [history |-> history, response |-> BookResponse("ready_to_help", <<>>, 0)]
    ELSE LET asked == Append(history,
                             HistoryEntry("user_input", user_input, "", 0))
         IN  IF lower(user_input) \in greetings
             THEN [history |-> asked, response |-> BookResponse("greeting", <<>>, choice)]
             ELSE IF lower(user_input) \in farewells
             THEN [history |-> asked, response |-> BookResponse("farewell", <<>>, 0)]
             ELSE answered(asked,
                           recommendations_for(user_input, similarities, argsort),
                           reply, choice)

(***************************************************************************)
(* The arguments the model calls the book assistant with.                  *)
(***************************************************************************)
\* the similarities of a query to the rows of books_df, in hundredths
ScoreVectors == [1..Len(books_df) -> {1, 2, 3}]

\* the similarities the vectorizer gives within a chat turn
ChatScoreVectors == { <<0, 1, 1>>, <<3, 2, 3>> }

\* num_recommendations
RecommendationCounts == {1, 2}

NoScores == <<>>

BookNotCalled == [kind |-> "not_called"]

\* what generate_content does when it is called: it raises, or returns a text
BookReplies == {[kind |-> "raise"], [kind |-> "text"]}

\* the wordings random.choice picks among
Choices == 1..3

BookCall(entry, user_input, similarities, argsort, num_recommendations, reply, choice) ==
    [entry |-> entry, user_input |-> user_input, similarities |-> similarities,
     argsort |-> argsort, num_recommendations |-> num_recommendations,
     reply |-> reply, choice |-> choice]

(***************************************************************************)
(* The state machine: one of the two programs runs, a PizzeriaBot or a     *)
(* BookRecommenderChatbot instance with its callers.                       *)
(***************************************************************************)
Init ==
    /\ program \in {"pizza", "books"}
    /\ current_order = new_order
    /\ before = new_order
    /\ call = [entry |-> "__init__", name |-> "", parameters |-> NoParameters,
               message |-> <<>>, reply |-> NotCalled]
    /\ response = Message("none")
    /\ conversation_history = <<>>
    /\ book_before = <<>>
    /\ book_call = BookCall("__init__", <<>>, NoScores, <<>>, 0, BookNotCalled, 0)
    /\ book_response = BookResponse("none", <<>>, 0)

\* an entry point returns: result is what the code made of current_order
Returns(result) ==
    /\ Len(result.order.ingredients) <= MaxIngredients
    /\ current_order' = result.order
    /\ before' = current_order
    /\ response' = result.response
    /\ UNCHANGED <<program, book_vars>>

\* a method of the book assistant returns
BookReturns(history, answer) ==
    /\ Len(history) <= MaxHistory
    /\ conversation_history' = history
    /\ book_before' = conversation_history
    /\ book_response' = answer
    /\ UNCHANGED <<program, pizza_vars>>

\* chat made generate_content run: it looked up and found recommendations
generate_content_called(user_input, similarities, argsort) ==
    /\ ~answers_itself(user_input)
    /\ recommendations_for(user_input, similarities, argsort) # <<>>

\* chat returns result
BookChatReturns(result) == BookReturns(result.history, result.response)

\* chat(user_input): the vectorizer and np.argsort give the similarities
\* and their order, generate_content raises or returns a text when it is
\* called, random.choice picks a wording
BookChat ==
    /\ program = "books"
    /\ \E user_input \in BookInputs, similarities \in ChatScoreVectors,
          reply \in BookReplies, choice \in Choices :
           \E argsort \in argsorts(similarities) :
               /\ book_call' = BookCall("chat", user_input, similarities, argsort,
                                        DefaultRecommendations,
                                        IF generate_content_called(user_input,
                                                                   similarities, argsort)
                                        THEN reply ELSE BookNotCalled,
                                        choice)
               /\ BookChatReturns(book_chat(conversation_history, user_input,
                                            similarities, argsort, reply, choice))

\* find_similar_books(query, num_recommendations)
FindSimilarBooks ==
    /\ program = "books"
    /\ \E similarities \in ScoreVectors, num_recommendations \in RecommendationCounts :
           \E argsort \in argsorts(similarities) :
               /\ book_call' = BookCall("find_similar_books", <<>>, similarities, argsort,
                                        num_recommendations, BookNotCalled, 0)
               /\ BookReturns(conversation_history,
                              BookResponse("recommendations",
                                           find_similar_books(similarities, argsort,
                                                              num_recommendations), 0))

\* detect_intent(user_input)
DetectIntent ==
    /\ program = "books"
    /\ \E user_input \in IntentInputs :
           /\ book_call' = BookCall("detect_intent", user_input, NoScores, <<>>, 0,
                                    BookNotCalled, 0)
           /\ BookReturns(conversation_history,
                          IntentResponse(detected_intent[user_input]))

\* the call execute_function(function_name, parameters)
Dispatched(function_name, parameters) ==
    [entry |-> "execute_function", name |-> function_name,
     parameters |-> parameters, message |-> <<>>, reply |-> NotCalled]

\* execute_function("create_pizza_with_size", parameters)
CreatePizzaWithSize ==
    /\ program = "pizza"
    /\ \E parameters \in ParameterMappings :
           /\ call' = Dispatched("create_pizza_with_size", parameters)
           /\ Returns(execute_function(current_order, "create_pizza_with_size", parameters))

\* execute_function("add_ingredient", parameters)
AddIngredient ==
    /\ program = "pizza"
    /\ \E parameters \in ParameterMappings :
           /\ call' = Dispatched("add_ingredient", parameters)
           /\ Returns(execute_function(current_order, "add_ingredient", parameters))

\* execute_function("set_pizza_size", parameters)
SetPizzaSize ==
    /\ program = "pizza"
    /\ \E parameters \in ParameterMappings :
           /\ call' = Dispatched("set_pizza_size", parameters)
           /\ Returns(execute_function(current_order, "set_pizza_size", parameters))

\* execute_function("remove_ingredient", parameters)
RemoveIngredient ==
    /\ program = "pizza"
    /\ \E parameters \in ParameterMappings :
           /\ call' = Dispatched("remove_ingredient", parameters)
           /\ Returns(execute_function(current_order, "remove_ingredient", parameters))

\* execute_function("show_current_order", parameters)
ShowCurrentOrder ==
    /\ program = "pizza"
    /\ \E parameters \in ParameterMappings :
           /\ call' = Dispatched("show_current_order", parameters)
           /\ Returns(execute_function(current_order, "show_current_order", parameters))

\* execute_function("confirm_order", parameters)
ConfirmOrder ==
    /\ program = "pizza"
    /\ \E parameters \in ParameterMappings :
           /\ call' = Dispatched("confirm_order", parameters)
           /\ Returns(execute_function(current_order, "confirm_order", parameters))

\* execute_function("show_available_ingredients", parameters)
ShowAvailableIngredients ==
    /\ program = "pizza"
    /\ \E parameters \in ParameterMappings :
           /\ call' = Dispatched("show_available_ingredients", parameters)
           /\ Returns(execute_function(current_order, "show_available_ingredients", parameters))

\* execute_function with a name that is none of the seven
UnknownFunction ==
    /\ program = "pizza"
    /\ \E function_name \in FunctionNames \ OrderFunctions, parameters \in ParameterMappings :
           /\ call' = Dispatched(function_name, parameters)
           /\ Returns(execute_function(current_order, function_name, parameters))

\* chat(user_message); the collaborator is called only past the shortcut
Chat ==
    /\ program = "pizza"
    /\ \E user_message \in UserMessages :
               \E reply \in (IF is_completion(user_message) THEN {NotCalled} ELSE Replies) :
                   /\ call' = [entry |-> "chat", name |-> "", parameters |-> NoParameters,
                               message |-> user_message, reply |-> reply]
                   /\ Returns(chat(current_order, user_message, reply))

Next ==
    \/ CreatePizzaWithSize
    \/ AddIngredient
    \/ SetPizzaSize
    \/ RemoveIngredient
    \/ ShowCurrentOrder
    \/ ConfirmOrder
    \/ ShowAvailableIngredients
    \/ UnknownFunction
    \/ Chat
    \/ BookChat
    \/ FindSimilarBooks
    \/ DetectIntent

Spec == Init /\ [][Next]_vars

(***************************************************************************)
(* Properties.                                                             *)
(***************************************************************************)
\* the last call was execute_function(function_name, ...)
Executed(function_name) ==
    call.entry = "execute_function" /\ call.name = function_name

\* the four size tiers
FourTiers == { <<"s","m","a","l","l">>, <<"m","e","d","i","u","m">>, <<"l","a","r","g","e">>, <<"e","x","t","r","a"," ","l","a","r","g","e">> }

\* the names of the catalog, as the catalog spells them
CatalogNames ==
    UNION {{available_ingredients[c][i] : i \in 1..Len(available_ingredients[c])} :
              c \in 1..Len(available_ingredients)}

\* the elements of a list
Elements(list) == {list[i] : i \in 1..Len(list)}

\* list without its element i
Without(list, i) ==
    [j \in 1..(Len(list) - 1) |-> IF j < i THEN list[j] ELSE list[j + 1]]

\* C1: confirm_order sets confirmed exactly when, at the call, size is set
\* and the ingredient list is non-empty; otherwise it reports the unmet
\* precondition, the missing size first, and leaves the order record as it was.
C1_ConfirmOrder ==
    Executed("confirm_order") =>
        IF before.size # None /\ before.ingredients # <<>>
        THEN /\ current_order.confirmed = TRUE
             /\ response.kind = "order_confirmed"
        ELSE /\ current_order = before
             /\ response.kind = IF before.size = None
                                THEN "select_size_first"
                                ELSE "add_toppings_first"

\* C1: confirm_order has just confirmed an order that was not confirmed
C1_Witness ==
    /\ Executed("confirm_order")
    /\ ~before.confirmed
    /\ current_order.confirmed

\* C2: size is always unset or one of the four tiers, a set size never
\* becomes unset, and confirmed, once true, stays true, over every sequence
\* of dispatcher operations and chat turns.
C2_ForwardOnly ==
    /\ [](current_order.size \in FourTiers \cup {None})
    /\ [][ /\ current_order.size # None => current_order'.size # None
           /\ current_order.confirmed => current_order'.confirmed ]_vars

\* C2: a confirmed order whose size a later call changed
C2_Witness ==
    /\ before.confirmed
    /\ current_order.confirmed
    /\ before.size # None
    /\ current_order.size \in FourTiers
    /\ current_order.size # before.size

\* C3: no ingredient name occurs twice in the ingredient list.
C3_NoDuplicates ==
    \A i, j \in 1..Len(current_order.ingredients) :
        i # j => current_order.ingredients[i] # current_order.ingredients[j]

\* C4: every element of the ingredient list is a name of the catalog, in
\* the catalog's spelling.
C4_CatalogNamesOnly ==
    Elements(current_order.ingredients) \subseteq CatalogNames

\* C4: add_ingredient has just stored a name the caller spelled differently
C4_Witness ==
    /\ Executed("add_ingredient")
    /\ response.kind = "added"
    /\ call.parameters.ingredient \notin CatalogNames
    /\ current_order.ingredients = Append(before.ingredients, response.ingredient)
    /\ response.ingredient \in CatalogNames

\* C5: executing one of the six order operations with the same arguments a
\* second time in a row leaves the order record as the first execution left it.
C5_Idempotent ==
    [][ ( /\ call.entry = "execute_function"
          /\ call.name \in OrderFunctions \ {"show_available_ingredients"}
          /\ call' = call )
        => current_order' = current_order ]_vars

\* C6: set_pizza_size with a size that, lower-cased and trimmed, is one of
\* the four tiers sets size to it and leaves the ingredient list and
\* confirmed alone; with any other argument it reports an unknown size and
\* leaves the order record as it was.
C6_SetPizzaSize ==
    Executed("set_pizza_size") =>
        LET size == strip(lower(get(call.parameters.size, <<>>)))
        IN  IF size \in FourTiers
            THEN /\ current_order = [before EXCEPT !.size = size]
                 /\ response.kind = "size_set"
            ELSE /\ current_order = before
                 /\ response.kind = "unknown_size"

\* C6: set_pizza_size has just replaced one tier by another on an order
\* with toppings
C6_Witness ==
    /\ Executed("set_pizza_size")
    /\ before.size \in FourTiers
    /\ current_order.size \in FourTiers \ {before.size}
    /\ before.ingredients # <<>>
    /\ current_order.ingredients = before.ingredients

\* C7: add_ingredient does not read size or confirmed: a normalized name of
\* the catalog that is not yet in the list is appended at the end, size and
\* confirmed unchanged; a name already in the list, or not in the catalog,
\* leaves the order record as it was and is reported as such.
C7_AddIngredient ==
    Executed("add_ingredient") =>
        LET name == normalize_ingredient(get(call.parameters.ingredient, <<>>))
        IN  IF name \in CatalogNames /\ name \notin Elements(before.ingredients)
            THEN /\ current_order = [before EXCEPT !.ingredients = Append(@, name)]
                 /\ Len(current_order.ingredients) = Len(before.ingredients) + 1
                 /\ response.kind = "added"
            ELSE /\ current_order = before
                 /\ response.kind = IF name \in CatalogNames
                                    THEN "already_present"
                                    ELSE "not_available"

\* C7: add_ingredient has just appended to an order without a size
C7_Witness ==
    /\ Executed("add_ingredient")
    /\ before.size = None
    /\ before.ingredients # <<>>
    /\ response.kind = "added"
    /\ Len(current_order.ingredients) = Len(before.ingredients) + 1

\* C8: remove_ingredient with a name that, lower-cased and trimmed, matches
\* no ingredient reports not-found and leaves the list as it was; otherwise
\* it removes the first match alone, the rest keeping its order; size and
\* confirmed are unchanged either way.
C8_RemoveIngredient ==
    Executed("remove_ingredient") =>
        LET name == strip(lower(get(call.parameters.ingredient, <<>>)))
            hits == {i \in 1..Len(before.ingredients) :
                        lower(before.ingredients[i]) = name}
        IN  /\ current_order.size = before.size
            /\ current_order.confirmed = before.confirmed
            /\ IF hits = {}
               THEN /\ current_order.ingredients = before.ingredients
                    /\ response.kind = "not_found"
               ELSE /\ \E i \in hits :
                         /\ \A j \in hits : i <= j
                         /\ current_order.ingredients = Without(before.ingredients, i)
                    /\ Len(current_order.ingredients) = Len(before.ingredients) - 1
                    /\ response.kind = "removed"

\* C8: remove_ingredient has just removed the first of two matches, an
\* element between them
C8_Witness ==
    /\ Executed("remove_ingredient")
    /\ response.kind = "removed"
    /\ Len(before.ingredients) = 3
    /\ before.ingredients[1] = before.ingredients[3]
    /\ before.ingredients[1] # before.ingredients[2]
    /\ response.ingredient = before.ingredients[1]
    /\ current_order.ingredients = <<before.ingredients[2], before.ingredients[3]>>

\* C9: the total a successful confirm_order reports is the price of the
\* size the order holds, whatever its ingredients.
C9_TotalIsSizePrice ==
    response.kind = "order_confirmed" =>
        /\ current_order.size \in FourTiers
        /\ response.total = size_info(current_order.size).price

\* C9: confirm_order has just confirmed an order with two toppings
C9_Witness ==
    /\ Executed("confirm_order")
    /\ response.kind = "order_confirmed"
    /\ Len(current_order.ingredients) >= 2
    /\ response.total = size_info(current_order.size).price

\* C10: execute_function with a name that is none of the seven returns the
\* could-not-understand response, and show_current_order and
\* show_available_ingredients return their text, each leaving the order
\* record as it was, whatever the parameter mapping.
C10_NonMutatingDispatch ==
    /\ (call.entry = "execute_function" /\ call.name \notin OrderFunctions)
          => /\ current_order = before
             /\ response.kind = "could_not_understand"
    /\ Executed("show_current_order")
          => /\ current_order = before
             /\ response.kind = IF before.size = None
                                THEN "no_size_yet"
                                ELSE "order_summary"
    /\ Executed("show_available_ingredients")
          => /\ current_order = before
             /\ response.kind = "available_ingredients"

\* C10: show_current_order has just shown an order with a size and
\* toppings, called with a non-empty parameter mapping
C10_Witness ==
    /\ Executed("show_current_order")
    /\ call.parameters # NoParameters
    /\ response.kind = "order_summary"
    /\ response.toppings # <<>>
    /\ current_order = before

\* the completion keywords: "that's all", "done", "finish", "complete"
CompletionKeywords == { <<"t","h","a","t","'","s"," ","a","l","l">>, <<"d","o","n","e">>, <<"f","i","n","i","s","h">>, <<"c","o","m","p","l","e","t","e">> }

\* the message holds a completion keyword somewhere, in whatever case
HasKeyword(message) ==
    \E keyword \in CompletionKeywords :
        \E i \in 1..Len(message) :
            /\ i + Len(keyword) - 1 <= Len(message)
            /\ \A j \in 1..Len(keyword) : lower_char(message[i + j - 1]) = keyword[j]

\* C11: a chat turn whose message holds a completion keyword, in whatever
\* case, does not call the collaborator and does not go through the
\* dispatcher: it runs confirm_order when size is set and the ingredient
\* list is non-empty and show_current_order otherwise, so that the order
\* record changes at most by confirmed becoming true.
C11_KeywordShortcut ==
    (call.entry = "chat" /\ HasKeyword(call.message)) =>
        /\ call.reply = NotCalled
        /\ IF before.size # None /\ before.ingredients # <<>>
           THEN /\ response.kind = "order_confirmed"
                /\ current_order = [before EXCEPT !.confirmed = TRUE]
           ELSE /\ response.kind = IF before.size = None
                                   THEN "no_size_yet"
                                   ELSE "order_summary"
                /\ current_order = before

\* C11: a chat turn with an upper-case keyword has just confirmed an order
C11_Witness ==
    /\ call.entry = "chat"
    /\ HasKeyword(call.message)
    /\ call.message # lower(call.message)
    /\ ~before.confirmed
    /\ current_order.confirmed
    /\ response.kind = "order_confirmed"

\* C16: a confirmed order has a size and at least one ingredient.
C16_ConfirmedHasToppings ==
    current_order.confirmed =>
        current_order.size # None /\ current_order.ingredients # <<>>

\* C16, amended: a confirmed order has a size, and confirmed becomes true
\* only in a step from a state with a size and a non-empty ingredient list,
\* which that step leaves as they are.
C16_ConfirmedWhenComplete ==
    /\ [](current_order.confirmed => current_order.size # None)
    /\ [][ (~current_order.confirmed /\ current_order'.confirmed) =>
              /\ current_order.size # None
              /\ current_order.ingredients # <<>>
              /\ current_order'.size = current_order.size
              /\ current_order'.ingredients = current_order.ingredients ]_vars

\* C16: remove_ingredient has just emptied the list of a confirmed order
C16_Witness ==
    /\ Executed("remove_ingredient")
    /\ before.confirmed
    /\ before.ingredients # <<>>
    /\ current_order.confirmed
    /\ current_order.ingredients = <<>>

\* the keys of the typo table that are not their own canonical form
TypoKeys == {typo_map[i][1] : i \in {i \in 1..Len(typo_map) : typo_map[i][1] # typo_map[i][2]}}

\* C17: remove_ingredient right after add_ingredient with the same name: for
\* a catalog name that was not in the list, the list is again what it was
\* before the two calls; for a key of the typo table that is not its own
\* canonical form, the removal reports not-found and the canonical
\* ingredient stays in the list.
C17_AddRemoveAsymmetry ==
    [][ ( /\ Executed("add_ingredient")
          /\ call.parameters.ingredient # Absent
          /\ call'.entry = "execute_function"
          /\ call'.name = "remove_ingredient"
          /\ call'.parameters.ingredient = call.parameters.ingredient )
        => LET x == call.parameters.ingredient
           IN  /\ (x \in CatalogNames /\ x \notin Elements(before.ingredients))
                    => /\ response'.kind = "removed"
                       /\ current_order'.ingredients = before.ingredients
               /\ x \in TypoKeys
                    => /\ response'.kind = "not_found"
                       /\ current_order'.ingredients = current_order.ingredients
                       /\ normalize_ingredient(x) \in Elements(current_order'.ingredients)
      ]_vars

\* C17: remove_ingredient has just reported not-found for a key of the typo
\* table whose canonical form is in the list
C17_Witness ==
    /\ Executed("remove_ingredient")
    /\ call.parameters.ingredient \in TypoKeys
    /\ response.kind = "not_found"
    /\ normalize_ingredient(call.parameters.ingredient) \in Elements(current_order.ingredients)
    /\ current_order.ingredients = before.ingredients


\* the turn of a chat call whose generate_content raised
CollaboratorFailed == call.entry = "chat" /\ call.reply.kind = "raise"

BookCollaboratorFailed == book_call.entry = "chat" /\ book_call.reply.kind = "raise"

\* C12: a failure of the text-generation collaborator never leaves chat: the
\* pizza assistant answers with the apologetic retry message and its order
\* record is what it was before the turn; the book assistant answers with
\* the templated listing of the recommendations it found in that turn.
C12_CollaboratorFailureCaught ==
    /\ CollaboratorFailed =>
           /\ response = Message("error")
           /\ current_order = before
    /\ BookCollaboratorFailed =>
           /\ book_response.kind = "fallback_listing"
           /\ book_response.books # <<>>
           /\ book_response.books =
                  head(recommendations_for(book_call.user_input, book_call.similarities,
                                           book_call.argsort), ListedBooks)

\* C12: the book assistant has just answered a failed generate_content with
\* a listing of the two books it found
C12_Witness ==
    /\ BookCollaboratorFailed
    /\ book_response.kind = "fallback_listing"
    /\ Len(book_response.books) = 2
    /\ Len(conversation_history) = Len(book_before) + 2

\* C13: chat on an empty or whitespace-only input returns a prompt for more
\* input, looks nothing up, does not call the collaborator and leaves the
\* state of the instance as it was, in both assistants.
C13_BlankShortCircuit ==
    /\ (call.entry = "chat" /\ strip(call.message) = <<>>) =>
           /\ call.reply = NotCalled
           /\ response = Message("happy_to_help")
           /\ current_order = before
    /\ (book_call.entry = "chat" /\ strip(book_call.user_input) = <<>>) =>
           /\ book_call.reply = BookNotCalled
           /\ book_response = BookResponse("ready_to_help", <<>>, 0)
           /\ conversation_history = book_before

\* row i stands before row j in the reference ranking: higher score first,
\* equal scores in catalog order
RankedBefore(similarities, i, j) ==
    \/ similarities[i] > similarities[j]
    \/ similarities[i] = similarities[j] /\ i < j

\* the rows whose score clears the floor
AboveFloor(similarities) ==
    {i \in 1..Len(similarities) : similarities[i] > SimilarityFloor}

\* the row at place a of the reference ranking
RankedAt(similarities, a) ==
    CHOOSE i \in AboveFloor(similarities) :
        Cardinality({j \in AboveFloor(similarities) : RankedBefore(similarities, j, i)}) = a - 1

\* the reference result: the rows above the floor by descending score, ties
\* in catalog order, the first k of them
ReferenceRanking(similarities, k) ==
    head([a \in 1..Cardinality(AboveFloor(similarities)) |->
             Recommendation(RankedAt(similarities, a), "similarity",
                            similarities[RankedAt(similarities, a)])], k)

\* the similarity scores of a list of recommendations, in its order
Scores(recommendations) ==
    [a \in 1..Len(recommendations) |-> recommendations[a].similarity_score]

C15_FirstMatchPriority ==
    book_call.entry = "detect_intent" =>
        /\ matching(author_patterns, lower(book_call.user_input)) # {} =>
               /\ book_response.intent = "author_search"
               /\ book_response.query =
                      strip(re_search(author_patterns[
                                least(matching(author_patterns, lower(book_call.user_input)))],
                                      lower(book_call.user_input)).group)
        /\ ( /\ matching(author_patterns, lower(book_call.user_input)) = {}
             /\ matching(title_patterns, lower(book_call.user_input)) # {} ) =>
               /\ book_response.intent = "title_search"
               /\ book_response.query =
                      strip(re_search(title_patterns[
                                least(matching(title_patterns, lower(book_call.user_input)))],
                                      lower(book_call.user_input)).group)
        /\ ( /\ matching(author_patterns, lower(book_call.user_input)) = {}
             /\ matching(title_patterns, lower(book_call.user_input)) = {} ) =>
               /\ book_response.intent = "similarity_search"
               /\ book_response.query = book_call.user_input
        /\ book_call.user_input = <<"B","o","o","k","s"," ","b","y"," ","J","a","n","e"," ","A","u","s","t","e","n">> =>
               /\ book_response.intent = "author_search"
               /\ book_response.query = <<"j","a","n","e"," ","a","u","s","t","e","n">>
        /\ book_call.user_input = <<"b","o","o","k"," ","c","a","l","l","e","d"," ","D","u","n","e">> =>
               /\ book_response.intent = "title_search"
               /\ book_response.query = <<"d","u","n","e">>
        /\ book_call.user_input = <<"a","b","o","u","t"," ","d","r","a","g","o","n","s">> =>
               /\ book_response.intent = "similarity_search"
               /\ book_response.query = <<"a","b","o","u","t"," ","d","r","a","g","o","n","s">>

\* C15: detect_intent has just answered author_search for an input that a
\* title pattern matches too
C15_Witness ==
    /\ book_call.entry = "detect_intent"
    /\ matching(author_patterns, lower(book_call.user_input)) # {}
    /\ matching(title_patterns, lower(book_call.user_input)) # {}
    /\ book_response.intent = "author_search"

====
